---- MODULE Spec2Model ----
(***************************************************************************)
(* claude-limits: the fuzzy field-matching engine (package fuzzy), the      *)
(* usage client (package api), the usage cache (package cache), the        *)
(* Claude Code settings (package claudecode) and the commands that use     *)
(* them (package cli).                                                     *)
(*                                                                         *)
(* Strings are TLA+ strings (sequences of characters); the model's         *)
(* alphabets are ASCII, so Go's byte length and rune count coincide.       *)
(*                                                                         *)
(* Specifications:                                                         *)
(*   SpecScore  - the library calls ExpandNumbers(s) and Score(q, t) on    *)
(*                inputs drawn from bounded sets;                          *)
(*   SpecMatch  - the query path of the command line (printMatchedValue):  *)
(*                FlattenData(doc, "") and then FindBestMatch(pairs, q).   *)
(*   SpecRetry  - Client.GetUsage (package api): the retry loop around     *)
(*                doRequest, one step per loop head, request and answer;   *)
(*                SpecRetryFair adds that the call keeps running.          *)
(*   SpecConcurrent - two goroutines that each flatten a document of their *)
(*                own and match a query against it, interleaved at the     *)
(*                iterations of the loop of FindBestMatch.                 *)
(*   SpecBackoff - backoffDuration(n) for any attempt number, next to the  *)
(*                loop of GetUsage that calls it.                          *)
(*   SpecCache  - Cache.Read and Cache.Write on one cache file, one call   *)
(*                after the other, under a wall clock that advances or is  *)
(*                set back.                                                *)
(*   SpecUsage  - getUsageWithCache: cache read, credentials, request,     *)
(*                cache write.                                             *)
(*   SpecSettings - Settings.SetStatusLine on the maps LoadSettings can    *)
(*                return.                                                  *)
(*   SpecInstall - one run of install-script: target test, conflict check, *)
(*                script write, statusLine configuration.                  *)
(***************************************************************************)
EXTENDS Integers, Sequences, FiniteSets, TLC

VARIABLES
    numberWordKeys,   \* package variable: the numerals, longest first
    doc,              \* the parsed usage document, each mapping in the order this run ranges over it
    pairs,            \* the result of FlattenData(doc, "")
    query,            \* the query of the last call
    target,           \* the target of the last Score call
    expanded,         \* the result of the last ExpandNumbers call
    score,            \* the result of the last Score call
    match,            \* the result of the last FindBestMatch call
    pc,               \* position: "start", "expanded", "scored", "flattened", "done"
    urlOK,            \* Client: http.NewRequest accepts baseURL
    attempt,          \* GetUsage: the loop variable
    lastErr,          \* GetUsage: the error of the last failed attempt
    sleeps,           \* the durations GetUsage has slept, in milliseconds, in order
    inflight,         \* the requests sent and not yet answered
    responses,        \* what the server answered to the requests so far, in order
    result,           \* what GetUsage returned: [usage, err]
    rpc,              \* GetUsage position: "idle", "loop", "request", "wait", "done"
    calls,            \* per concurrent caller: its arguments, locals and result
    backoffCall,      \* a call of backoffDuration: its argument and, once returned, its result
    now,              \* the wall clock, in ticks
    mono,             \* the monotonic clock, in ticks
    cacheFile,        \* the content of the cache file usage.json
    cacheOp,          \* the last call of Cache.Read or Cache.Write and what it returned
    lastWrite,        \* the usage of the last Write if it succeeded, NilUsage otherwise
    fetch,            \* a call of getUsageWithCache: its position, what it did, its result
    settings,         \* the Settings value SetStatusLine is called on
    setCall,          \* the last call of SetStatusLine: arguments, receiver before, error
    files,            \* the script file and the user and project settings files
    install           \* a run of install-script: its flags and arguments, position, error

matchVars == <<numberWordKeys, doc, pairs, query, target, expanded, score, match, pc>>
retryVars == <<urlOK, attempt, lastErr, sleeps, inflight, responses, result, rpc>>
cacheVars == <<now, mono, cacheFile, cacheOp, lastWrite, fetch>>
installVars == <<settings, setCall, files, install>>
vars == <<matchVars, retryVars, calls, backoffCall, cacheVars, installVars>>

----------------------------------------------------------------------------
(* Bounds of the model *)

\* generated queries have at most this many characters
MaxQueryLen == 2
\* generated targets have at most this many characters
MaxTargetLen == 3
\* generated documents have at most this many nodes below the root mapping
MaxNodes == 3
\* length of the long query that a subsequence match scores above an exact match
ExactBeatenLen == 100
\* length of the long query that a subsequence match scores above a substring match
SubstringBeatenLen == 56

----------------------------------------------------------------------------
(* String helpers: the functions of package strings that the code calls *)

Char(s, i) == SubSeq(s, i, i)
Drop(s, n) == SubSeq(s, n + 1, Len(s))

\* s repeated n times (halving keeps the evaluation shallow)
RECURSIVE Repeat(_, _)
Repeat(s, n) ==
    IF n <= 0 THEN ""
    ELSE LET half == Repeat(s, n \div 2)
         IN  half \o half \o (IF n % 2 = 1 THEN s ELSE "")

\* the position (1-based) of the first occurrence of substr in s, or 0
Index(s, substr) ==
    IF \E i \in 1..(Len(s) - Len(substr) + 1) : SubSeq(s, i, i + Len(substr) - 1) = substr
    THEN CHOOSE i \in 1..(Len(s) - Len(substr) + 1) :
            /\ SubSeq(s, i, i + Len(substr) - 1) = substr
            /\ \A j \in 1..(i - 1) : SubSeq(s, j, j + Len(substr) - 1) # substr
    ELSE 0

\* strings.ReplaceAll(s, old, new) for a non-empty old: non-overlapping
\* occurrences, leftmost first
RECURSIVE ReplaceAll(_, _, _)
ReplaceAll(s, old, new) ==
    LET i == Index(s, old)
    IN  IF i = 0 THEN s
        ELSE SubSeq(s, 1, i - 1) \o new \o ReplaceAll(Drop(s, i + Len(old) - 1), old, new)

\* strings.Contains(s, substr)
Contains(s, substr) ==
    \E i \in 0..(Len(s) - Len(substr)) : SubSeq(s, i + 1, i + Len(substr)) = substr

\* strings.HasSuffix(s, suffix)
HasSuffix(s, suffix) ==
    /\ Len(s) >= Len(suffix)
    /\ Drop(s, Len(s) - Len(suffix)) = suffix

UpperLetters == "ABCDEFGHIJKLMNOPQRSTUVWXYZ"
LowerLetters == "abcdefghijklmnopqrstuvwxyz"

UpperSet == { Char(UpperLetters, i) : i \in 1..Len(UpperLetters) }
LowerOf ==
    [c \in UpperSet |->
        Char(LowerLetters, CHOOSE i \in 1..Len(UpperLetters) : Char(UpperLetters, i) = c)]

LowerChar(c) == IF c \in UpperSet THEN LowerOf[c] ELSE c

\* strings.ToLower(s)
RECURSIVE ToLower(_)
ToLower(s) == IF Len(s) = 0 THEN "" ELSE LowerChar(Char(s, 1)) \o ToLower(Drop(s, 1))

Digits == "0123456789"

\* the decimal text of n >= 0, as %d prints it
RECURSIVE Itoa(_)
Itoa(n) == IF n < 10 THEN Char(Digits, n + 1) ELSE Itoa(n \div 10) \o Char(Digits, (n % 10) + 1)

----------------------------------------------------------------------------
(* The numeral table *)

numberWords ==
    "0" :> "zero" @@ "1" :> "one" @@ "2" :> "two" @@ "3" :> "three" @@ "4" :> "four" @@
    "5" :> "five" @@ "6" :> "six" @@ "7" :> "seven" @@ "8" :> "eight" @@ "9" :> "nine" @@
    "10" :> "ten" @@ "11" :> "eleven" @@ "12" :> "twelve" @@ "13" :> "thirteen" @@
    "14" :> "fourteen" @@ "15" :> "fifteen" @@ "16" :> "sixteen" @@ "17" :> "seventeen" @@
    "18" :> "eighteen" @@ "19" :> "nineteen" @@ "20" :> "twenty" @@ "24" :> "twentyfour" @@
    "30" :> "thirty" @@ "48" :> "fortyeight" @@ "72" :> "seventytwo"

\* the keys of numberWords by length
TwoCharKeys == <<"10", "11", "12", "13", "14", "15", "16", "17", "18", "19", "20", "24", "30", "48", "72">>
OneCharKeys == <<"0", "1", "2", "3", "4", "5", "6", "7", "8", "9">>

Reverse(s) == [i \in 1..Len(s) |-> s[Len(s) + 1 - i]]

\* The values numberWordKeys can have after package initialisation. The keys are
\* collected by ranging over a map (unspecified order) and sorted with
\* sort.Slice by length only (not stable), so every order that puts the
\* two-character numerals first is possible. The model tries two of them, the
\* ascending and the descending one: between them every pair of numerals of
\* equal length is visited in both orders.
KeyOrders ==
    { TwoCharKeys \o OneCharKeys, Reverse(TwoCharKeys) \o Reverse(OneCharKeys) }

\* The iterations lo..hi of the loop of ExpandNumbers over the key list keys,
\* in order. The range is split in halves only to keep the evaluation shallow.
RECURSIVE ExpandRange(_, _, _, _)
ExpandRange(keys, s, lo, hi) ==
    IF lo > hi THEN s
    ELSE IF lo = hi THEN ReplaceAll(s, keys[lo], numberWords[keys[lo]])
    ELSE LET mid == (lo + hi) \div 2
             left == ExpandRange(keys, s, lo, mid)
         IN  IF Len(left) = 0 THEN left   \* nothing is left to replace in ""
             ELSE ExpandRange(keys, left, mid + 1, hi)

\* the loop of ExpandNumbers over a given key list
\* (variant: the key list is not consulted in its order; the one-character
\* numerals are replaced first)
ExpandWithShortFirst(keys, s) ==
    ExpandRange(OneCharKeys \o TwoCharKeys, s, 1, Len(keys))

\* (variant: the loop ends after the two-character numerals)
ExpandWithTwoCharOnly(keys, s) == ExpandRange(keys, s, 1, Len(TwoCharKeys))

\* (variant: the input is lower-cased before the numerals are replaced)
ExpandWithLowered(keys, s) == ExpandRange(keys, ToLower(s), 1, Len(keys))

ExpandWith(keys, s) == ExpandRange(keys, s, 1, Len(keys))

ExpandNumbers(s) == ExpandWith(numberWordKeys, s)

----------------------------------------------------------------------------
(* Score *)

\* (variant: the numerals of the query are not expanded)
NormalizeQueryUnexpanded(keys, q) == ReplaceAll(q, "_", "")

\* the normalisation of the query and of the target in Score
NormalizeQueryWith(keys, q) == ReplaceAll(ExpandWith(keys, q), "_", "")
NormalizeQuery(q) == NormalizeQueryWith(numberWordKeys, q)
NormalizeTarget(t) == ReplaceAll(t, "_", "")

\* the index (1-based) of the first occurrence of c in nt at or after
\* position from, or 0
FirstAt(nt, c, from) ==
    IF \E j \in from..Len(nt) : Char(nt, j) = c
    THEN CHOOSE j \in from..Len(nt) :
            /\ Char(nt, j) = c
            /\ \A k \in from..(j - 1) : Char(nt, k) # c
    ELSE 0

\* (a variant of SubsequenceStep that leaves the cursor on the matched character)
SubsequenceStepNoAdvance(st, nt, c) ==
    IF ~st.found THEN st
    ELSE LET j == FirstAt(nt, c, st.targetIdx + 1)
         IN  IF j = 0
             THEN [targetIdx |-> Len(nt), score |-> 0, found |-> FALSE]
             ELSE [targetIdx |-> j - 1,
                   score |-> st.score + 10 + (IF j - 1 = 0 THEN 5 ELSE 0),
                   found |-> TRUE]

\* One iteration of the outer loop of Score for the query character c. st is
\* the loop's state: the cursor targetIdx (0-based, as in the code), the score
\* so far, and found = FALSE once a character was not found (return 0).
SubsequenceStep(st, nt, c) ==
    IF ~st.found THEN st
    ELSE LET j == FirstAt(nt, c, st.targetIdx + 1)
         IN  IF j = 0
             THEN [targetIdx |-> Len(nt), score |-> 0, found |-> FALSE]
             ELSE [targetIdx |-> j,
                   score |-> st.score + 10 + (IF j - 1 = 0 THEN 5 ELSE 0),
                   found |-> TRUE]

\* The iterations of the outer loop for the query characters lo..hi, in order.
\* The range is split in halves only to keep the evaluation shallow.
RECURSIVE SubsequenceLoop(_, _, _, _, _)
SubsequenceLoop(st, nq, nt, lo, hi) ==
    IF lo > hi THEN st
    ELSE IF lo = hi THEN SubsequenceStep(st, nt, Char(nq, lo))
    ELSE LET mid == (lo + hi) \div 2
             left == SubsequenceLoop(st, nq, nt, lo, mid)
         IN  IF ~left.found THEN left
             ELSE SubsequenceLoop(left, nq, nt, mid + 1, hi)

\* the subsequence part of Score
SubsequenceScore(nq, nt) ==
    SubsequenceLoop([targetIdx |-> 0, score |-> 0, found |-> TRUE], nq, nt, 1, Len(nq)).score

\* (a variant of ScoreWith without the test for the empty query)
ScoreWithNoEmptyTest(keys, q, t) ==
    LET normalizedQuery == NormalizeQueryWith(keys, q)
        normalizedTarget == NormalizeTarget(t)
    IN  IF normalizedTarget = normalizedQuery THEN 1000
        ELSE IF Contains(normalizedTarget, normalizedQuery)
             THEN 500 + Len(normalizedQuery)
                  + (IF HasSuffix(normalizedTarget, normalizedQuery) THEN 100 ELSE 0)
             ELSE SubsequenceScore(normalizedQuery, normalizedTarget)

\* (a variant of ScoreWith that tests for a substring before it tests for equality)
ScoreWithContainsFirst(keys, q, t) ==
    IF q = "" THEN 0
    ELSE LET normalizedQuery == NormalizeQueryWith(keys, q)
             normalizedTarget == NormalizeTarget(t)
         IN  IF Contains(normalizedTarget, normalizedQuery)
             THEN 500 + Len(normalizedQuery)
                  + (IF HasSuffix(normalizedTarget, normalizedQuery) THEN 100 ELSE 0)
             ELSE IF normalizedTarget = normalizedQuery THEN 1000
             ELSE SubsequenceScore(normalizedQuery, normalizedTarget)

\* (strings.HasPrefix, for the variant below)
HasPrefix(s, prefix) ==
    /\ Len(s) >= Len(prefix)
    /\ SubSeq(s, 1, Len(prefix)) = prefix

\* (a variant of ScoreWith that gives the bonus to a prefix, not a suffix)
ScoreWithPrefixBonus(keys, q, t) ==
    IF q = "" THEN 0
    ELSE LET normalizedQuery == NormalizeQueryWith(keys, q)
             normalizedTarget == NormalizeTarget(t)
         IN  IF normalizedTarget = normalizedQuery THEN 1000
             ELSE IF Contains(normalizedTarget, normalizedQuery)
                  THEN 500 + Len(normalizedQuery)
                       + (IF HasPrefix(normalizedTarget, normalizedQuery) THEN 100 ELSE 0)
                  ELSE SubsequenceScore(normalizedQuery, normalizedTarget)

\* Score, given the value of numberWordKeys
ScoreWith(keys, q, t) ==
    IF q = "" THEN 0
    ELSE LET normalizedQuery == NormalizeQueryWith(keys, q)
             normalizedTarget == NormalizeTarget(t)
         IN  IF normalizedTarget = normalizedQuery THEN 1000
             ELSE IF Contains(normalizedTarget, normalizedQuery)
                  THEN 500 + Len(normalizedQuery)
                       + (IF HasSuffix(normalizedTarget, normalizedQuery) THEN 100 ELSE 0)
                  ELSE SubsequenceScore(normalizedQuery, normalizedTarget)

Score(q, t) == ScoreWith(numberWordKeys, q, t)

----------------------------------------------------------------------------
(* Documents: the generic JSON values that json.Unmarshal produces.  A mapping
   is held as the sequence of its entries in the order in which this run's
   range statement visits them; FlattenData ranges over each mapping once, so
   one order per mapping describes a run. *)

Scalar(v) == [t |-> "scalar", v |-> v]
Null == [t |-> "null"]
MapOf(entries) == [t |-> "map", e |-> entries]
ArrayOf(elems) == [t |-> "arr", e |-> elems]
Entry(k, v) == [k |-> k, v |-> v]

\* KeyValue
KeyValue(path, key, value) == [Path |-> path, Key |-> key, Value |-> value]
NoKeyValue == KeyValue("", "", "")

----------------------------------------------------------------------------
(* FlattenData *)

RECURSIVE FlattenData(_, _), FlattenEntries(_, _, _), FlattenItems(_, _, _)

\* the Value of an entry made for a nil interface value, as %v prints it
NilValue == "<nil>"

\* (variant: a null value is appended like any other leaf)
FlattenEntryKeepNull(key, value, prefix) ==
    LET path == IF prefix # "" THEN prefix \o "_" \o key ELSE key
    IN  CASE value.t = "map" -> FlattenData(value, path)
          [] value.t = "arr" -> FlattenItems(value.e, 1, path)
          [] value.t = "null" -> <<KeyValue(path, key, NilValue)>>
          [] OTHER -> <<KeyValue(path, key, value.v)>>

\* (variant: the index of an array element is printed as i, not i+1)
FlattenItemsZeroBased(items, i, path) ==
    IF i > Len(items) THEN <<>>
    ELSE (IF items[i].t = "map"
          THEN FlattenData(items[i], path \o "_" \o Itoa(i - 1))
          ELSE <<>>)
         \o FlattenItems(items, i + 1, path)

\* the body of the range loop of FlattenData for one key and value
FlattenEntry(key, value, prefix) ==
    LET path == IF prefix # "" THEN prefix \o "_" \o key ELSE key
    IN  CASE value.t = "map" -> FlattenData(value, path)
          [] value.t = "arr" -> FlattenItems(value.e, 1, path)
          [] value.t = "null" -> <<>>
          [] OTHER -> <<KeyValue(path, key, value.v)>>

\* the inner loop over the items of an array, from the item at position i (1-based)
FlattenItems(items, i, path) ==
    IF i > Len(items) THEN <<>>
    ELSE (IF items[i].t = "map"
          THEN FlattenData(items[i], path \o "_" \o Itoa(i))
          ELSE <<>>)
         \o FlattenItems(items, i + 1, path)

\* the range loop of FlattenData, from the entry at position i
FlattenEntries(entries, i, prefix) ==
    IF i > Len(entries) THEN <<>>
    ELSE FlattenEntry(entries[i].k, entries[i].v, prefix)
         \o FlattenEntries(entries, i + 1, prefix)

FlattenData(data, prefix) == FlattenEntries(data.e, 1, prefix)

----------------------------------------------------------------------------
(* FindBestMatch *)

\* (variant: an entry that scores as much as the best one replaces it)
RECURSIVE BestFromLastWins(_, _, _, _, _)
BestFromLastWins(ps, queryLower, i, bestMatch, bestScore) ==
    IF i > Len(ps) THEN [bestMatch |-> bestMatch, bestScore |-> bestScore]
    ELSE LET sc == Score(queryLower, ToLower(ps[i].Path))
         IN  IF sc >= bestScore
             THEN BestFromLastWins(ps, queryLower, i + 1, i, sc)
             ELSE BestFromLastWins(ps, queryLower, i + 1, bestMatch, bestScore)

\* the loop of FindBestMatch from index i: the best index (0 for nil) and score
RECURSIVE BestFrom(_, _, _, _, _)
BestFrom(ps, queryLower, i, bestMatch, bestScore) ==
    IF i > Len(ps) THEN [bestMatch |-> bestMatch, bestScore |-> bestScore]
    ELSE LET sc == Score(queryLower, ToLower(ps[i].Path))
         IN  IF sc > bestScore
             THEN BestFrom(ps, queryLower, i + 1, i, sc)
             ELSE BestFrom(ps, queryLower, i + 1, bestMatch, bestScore)

\* (variant: the error carries the lower-cased query the scores were taken with)
FindBestMatchLoweredQuery(ps, q) ==
    LET best == BestFrom(ps, ToLower(q), 1, 0, 0)
    IN  IF best.bestMatch = 0 \/ best.bestScore = 0
        THEN [err |-> "ErrNoMatch", query |-> ToLower(q), idx |-> 0, kv |-> NoKeyValue]
        ELSE [err |-> "nil", query |-> "", idx |-> best.bestMatch, kv |-> ps[best.bestMatch]]

\* the result: err is "nil" or "ErrNoMatch" (a QueryError carrying query);
\* idx is the index in ps of the entry pointed to (0 for nil), kv that entry
FindBestMatch(ps, q) ==
    LET best == BestFrom(ps, ToLower(q), 1, 0, 0)
    IN  IF best.bestMatch = 0 \/ best.bestScore = 0
        THEN [err |-> "ErrNoMatch", query |-> q, idx |-> 0, kv |-> NoKeyValue]
        ELSE [err |-> "nil", query |-> "", idx |-> best.bestMatch, kv |-> ps[best.bestMatch]]

\* the value of a result before the call, and the document without entries
NoMatchYet == [err |-> "none", query |-> "", idx |-> 0, kv |-> NoKeyValue]
EmptyDoc == MapOf(<<>>)

----------------------------------------------------------------------------
(* Concurrent callers of FlattenData and FindBestMatch *)

Callers == {1, 2}

\* a caller: its document and query, the pairs it got from FlattenData, the
\* locals of FindBestMatch (i is the next index of the loop, bestMatch the
\* index pointed to or 0 for nil) and the result
Call(d, q, position) ==
    [doc |-> d, query |-> q, pairs |-> <<>>, i |-> 1, bestMatch |-> 0, bestScore |-> 0,
     result |-> NoMatchYet, pc |-> position]

\* the matching engine after package initialisation, before any call
MatcherIdle ==
    /\ numberWordKeys \in KeyOrders
    /\ doc = EmptyDoc
    /\ pairs = <<>>
    /\ query = ""
    /\ target = ""
    /\ expanded = ""
    /\ score = 0
    /\ match = NoMatchYet
    /\ pc = "start"

\* no caller is running
CallsIdle == calls = [c \in Callers |-> Call(EmptyDoc, "", "idle")]

\* (variant: bestScore is one variable shared by all the callers, kept here
\* in the record of caller 1)
ScoreIterationShared(cs, c) ==
    LET me == cs[c]
        sc == Score(ToLower(me.query), ToLower(me.pairs[me.i].Path))
        shared == cs[1].bestScore
        scored == IF sc > shared
                  THEN [cs EXCEPT ![c].bestMatch = me.i, ![1].bestScore = sc]
                  ELSE cs
    IN  [scored EXCEPT ![c].i = me.i + 1]

\* one iteration of the loop of FindBestMatch run by caller c: the callers
\* after it
ScoreIteration(cs, c) ==
    LET me == cs[c]
        sc == Score(ToLower(me.query), ToLower(me.pairs[me.i].Path))
    IN  IF sc > me.bestScore
        THEN [cs EXCEPT ![c].bestScore = sc, ![c].bestMatch = me.i, ![c].i = me.i + 1]
        ELSE [cs EXCEPT ![c].i = me.i + 1]

----------------------------------------------------------------------------
(* Client.GetUsage *)

\* Retry configuration (durations in milliseconds)
maxRetries == 3
initialBackoff == 500
maxBackoff == 5000

\* errors: nil, the errors of the standard library (http.NewRequest, the
\* transport, the body reader, the JSON decoder), an APIError, and an error
\* that fmt.Errorf wraps with %w
NoError == [type |-> "nil"]
URLError == [type |-> "url"]
TransportError == [type |-> "transport"]
ReadError == [type |-> "read"]
SyntaxError == [type |-> "json"]
NewAPIError(statusCode, message, retriable) ==
    [type |-> "APIError", StatusCode |-> statusCode, Message |-> message, Retriable |-> retriable]
Wrapf(msg, err) == [type |-> "wrapped", msg |-> msg, err |-> err]

\* *models.Usage: nil, or the raw bytes UnmarshalJSON has copied
NilUsage == [nil |-> TRUE, Raw |-> ""]
Usage(raw) == [nil |-> FALSE, Raw |-> raw]

\* what GetUsage returns, and the value of result while it runs
Return(usage, err) == [returned |-> TRUE, usage |-> usage, err |-> err]
NoResult == [returned |-> FALSE, usage |-> NilUsage, err |-> NoError]

\* the bodies of the answers: those of the tests, an error document, a page
\* that is no JSON, and nothing
UsageBody == "{\"five_hour\": {\"utilization\": 75.5}}"
TestBody == "{\"test\": \"data\"}"
ErrorBody == "{\"error\": \"overloaded\"}"
HTMLBody == "<html>"
ValidJSON == {UsageBody, TestBody, ErrorBody}

\* the field "error" of a body that is a JSON object, "" without it
ErrorField(body) == IF body = ErrorBody THEN "overloaded" ELSE ""

StatusText ==
    204 :> "No Content" @@ 400 :> "Bad Request" @@ 401 :> "Unauthorized" @@
    403 :> "Forbidden" @@ 404 :> "Not Found" @@ 429 :> "Too Many Requests" @@
    500 :> "Internal Server Error" @@ 502 :> "Bad Gateway" @@
    503 :> "Service Unavailable" @@ 504 :> "Gateway Timeout"

\* what a request can end with: no answer (transport error), an answer with a
\* status and a body, an answer whose body cannot be read
Answer(kind, code, body) == [kind |-> kind, code |-> code, body |-> body]
Answers ==
    {Answer("transport", 0, "")}
        \cup { Answer("http", c, "") : c \in DOMAIN StatusText }
        \cup { Answer("http", c, ErrorBody) : c \in {401, 503} }
        \cup { Answer("http", 200, b) : b \in {UsageBody, TestBody, HTMLBody} }
        \cup { Answer("unreadable", c, "") : c \in {200, 404, 503} }

\* (variant: only the statuses listed in the switch are retriable)
isRetriableListed(statusCode) == statusCode \in {429, 503, 504, 502}

isRetriable(statusCode) ==
    IF statusCode \in {429, 503, 504, 502} THEN TRUE ELSE statusCode >= 500

\* math.Pow(2, n) for n >= 0. The float64 result is exact up to 2^1023 and +Inf
\* beyond; here it is exact up to 2^Pow2Exact and every larger power is
\* represented by 2^Pow2Exact, which compares with maxBackoff as they do.
Pow2Exact == 20
RECURSIVE Pow2(_)
Pow2(n) ==
    IF n <= 0 THEN 1
    ELSE IF n > Pow2Exact THEN Pow2(Pow2Exact)
    ELSE 2 * Pow2(n - 1)

\* (variant: the backoff is not capped)
backoffDurationUncapped(n) == initialBackoff * Pow2(n)

\* durations in milliseconds
backoffDuration(n) ==
    LET backoff == initialBackoff * Pow2(n)
    IN  IF backoff > maxBackoff THEN maxBackoff ELSE backoff

\* a call of backoffDuration(n), before and after it returns
BackoffCall(n, returned, d) == [attempt |-> n, returned |-> returned, duration |-> d]
NoBackoffCall == [attempt |-> -1, returned |-> FALSE, duration |-> 0]
\* no call of backoffDuration outside GetUsage
BackoffIdle == backoffCall = NoBackoffCall

\* doRequest once the request is sent and a is what comes back:
\* the usage, the error, and whether to retry
doRequest(a) ==
    IF a.kind = "transport"
    THEN [usage |-> NilUsage, err |-> Wrapf("failed to make request", TransportError), retry |-> TRUE]
    ELSE IF a.code # 200
    THEN LET retriable == isRetriable(a.code)
             msg == IF Len(a.body) > 0 /\ a.body \in ValidJSON /\ ErrorField(a.body) # ""
                    THEN ErrorField(a.body)
                    ELSE StatusText[a.code]
         IN  [usage |-> NilUsage, err |-> NewAPIError(a.code, msg, retriable), retry |-> retriable]
    ELSE IF a.kind = "unreadable"
    THEN [usage |-> NilUsage, err |-> Wrapf("failed to read response", ReadError), retry |-> TRUE]
    ELSE IF a.body \notin ValidJSON
    THEN [usage |-> NilUsage, err |-> Wrapf("failed to parse response", SyntaxError), retry |-> FALSE]
    ELSE [usage |-> Usage(a.body), err |-> NoError, retry |-> FALSE]

\* (variant: the loop runs while attempt < maxRetries)
LoopContinuesBelow(a) == a < maxRetries

\* the condition of the loop of GetUsage
LoopContinues(a) == a <= maxRetries

\* the client outside a call of GetUsage
RetryIdle ==
    /\ urlOK = TRUE
    /\ attempt = 0
    /\ lastErr = NoError
    /\ sleeps = <<>>
    /\ inflight = 0
    /\ responses = <<>>
    /\ result = NoResult
    /\ rpc = "idle"

----------------------------------------------------------------------------
(* Package cache *)

\* the clocks count ticks; durations of whole seconds are compared in ticks
TicksPerSecond == 2

\* a time.Time: the wall clock reading and, when time.Now made it, the
\* monotonic reading (hasMono)
Time(wall, hasMono, m) == [wall |-> wall, hasMono |-> hasMono, mono |-> m]
TimeNow == Time(now, TRUE, mono)
\* Time.MarshalJSON and UnmarshalJSON: RFC 3339 with nanoseconds; the wall
\* reading survives, the monotonic reading does not
TimeFromJSON(t) == Time(t.wall, FALSE, 0)
\* time.Since(t): monotonic if t has a monotonic reading, wall clock otherwise
Since(t) == IF t.hasMono THEN mono - t.mono ELSE now - t.wall

\* the raw documents a Usage holds: the one of the cache tests, the one of
\* the client tests, and documents with blanks, markup and escapes in strings
TestUsageRaw == "{\"five_hour_utilization\": 75.5}"
BlankInStringRaw == "{\"a\" :\"x y\"}"
MarkupRaw == "{\"a\": \"<b>\"}"
EscapedQuoteRaw == "{\"a\": \"\\\" \"}"
UsageRaws == {TestUsageRaw, TestBody, BlankInStringRaw, MarkupRaw, EscapedQuoteRaw}

\* json.Valid on what a Usage or a cache file can hold here
ValidRaw(raw) == raw \in UsageRaws \cup {"null"}

\* The compaction json.Marshal applies to a RawMessage: white space outside
\* strings is dropped, and <, > and & (which occur in strings only) are
\* written as their \\u escapes. inString and escaped are the scanner's state
\* before character i.
RECURSIVE CompactFrom(_, _, _, _)
CompactFrom(raw, i, inString, escaped) ==
    IF i > Len(raw) THEN ""
    ELSE LET c == Char(raw, i)
             out == IF ~inString /\ c \in {" ", "\t", "\n", "\r"} THEN ""
                    ELSE IF c = "<" THEN "\\u003c"
                    ELSE IF c = ">" THEN "\\u003e"
                    ELSE IF c = "&" THEN "\\u0026"
                    ELSE c
             nextIn == IF escaped THEN inString
                       ELSE IF c = "\"" THEN ~inString
                       ELSE inString
             nextEsc == inString /\ ~escaped /\ c = "\\"
         IN  out \o CompactFrom(raw, i + 1, nextIn, nextEsc)

Compact(raw) == CompactFrom(raw, 1, FALSE, FALSE)

\* the content of the cache file: no file (or one that cannot be read), bytes
\* that json.Unmarshal rejects for a Data, or a document that decodes to a Data
\* with the given timestamp and usage (usage "" when the member is absent)
NoFile == [kind |-> "missing"]
BadFile == [kind |-> "text"]
DataFile(timestamp, usage) == [kind |-> "data", timestamp |-> timestamp, usage |-> usage]

\* errors of package cache and of the file system
ErrCacheExpired == [type |-> "ErrCacheExpired"]
PathError == [type |-> "os"]
NewCacheError(operation, path, err) ==
    [type |-> "CacheError", Operation |-> operation, Path |-> path, Err |-> err]

\* (variant: an entry is expired from the age ttl on)
ExpiredFrom(timestamp, ttlSeconds) == Since(timestamp) >= ttlSeconds * TicksPerSecond

\* the test of Read: the entry is older than ttlSeconds
Expired(timestamp, ttlSeconds) == Since(timestamp) > ttlSeconds * TicksPerSecond

\* Cache.Read(ttlSeconds) on the file as it is, at the clocks as they are
Read(ttlSeconds) ==
    IF cacheFile.kind = "missing"
    THEN [usage |-> NilUsage, err |-> NewCacheError("read", "file", PathError)]
    ELSE IF cacheFile.kind = "text"
    THEN [usage |-> NilUsage, err |-> NewCacheError("parse", "file", SyntaxError)]
    ELSE IF Expired(cacheFile.timestamp, ttlSeconds)
    THEN [usage |-> NilUsage, err |-> ErrCacheExpired]
    ELSE IF cacheFile.usage = ""
    THEN [usage |-> NilUsage, err |-> NewCacheError("parse", "file", SyntaxError)]
    ELSE [usage |-> Usage(cacheFile.usage), err |-> NoError]

\* Cache.Write(usage) when the file system does fs: "ok", or the step that
\* fails ("mkdir", "open", "write"); a write that fails after the file was
\* opened leaves a truncated file. The error and the file afterwards.
Write(usage, fs) ==
    IF ~ValidRaw(usage.Raw)
    THEN [err |-> NewCacheError("marshal", "file", SyntaxError), file |-> cacheFile]
    ELSE IF fs = "mkdir"
    THEN [err |-> NewCacheError("mkdir", "dir", PathError), file |-> cacheFile]
    ELSE IF fs = "open"
    THEN [err |-> NewCacheError("write", "file", PathError), file |-> cacheFile]
    ELSE IF fs = "write"
    THEN [err |-> NewCacheError("write", "file", PathError), file |-> BadFile]
    ELSE [err |-> NoError, file |-> DataFile(TimeFromJSON(TimeNow), Compact(usage.Raw))]
FileSystemOutcomes == {"ok", "mkdir", "open", "write"}

\* the record of a call of Read or Write: at is the wall clock when it ran
CacheOp(op, ttl, at, usage, err) ==
    [op |-> op, ttl |-> ttl, at |-> at, usage |-> usage, err |-> err]
NoCacheOp == CacheOp("none", 0, 0, NilUsage, NoError)

\* a call of getUsageWithCache: where it is, the TTL of the --cache flag, what
\* it has done so far, the usage it fetched and what it returned
Fetch(position, ttl, did, usage, ret) ==
    [pc |-> position, ttl |-> ttl, did |-> did, usage |-> usage, ret |-> ret]
NoFetch == Fetch("idle", 0, <<>>, NilUsage, NoResult)

\* (variant: the cache is used from a TTL of 0 on)
UseCacheFromZero(ttl) == ttl >= 0

\* the test of getUsageWithCache that guards Read and Write
UseCache(ttl) == ttl > 0

\* (variant: what Read returned is not used)
CacheHitNever(err) == FALSE

\* the test on what Read returned
CacheHit(err) == err = NoError

\* the error of ResolveAuth
AuthError == [type |-> "auth"]

\* what client.GetUsage can return: a usage, an APIError that is not retried,
\* the last error after the retries
GetUsageReturns ==
    { Return(Usage(raw), NoError) : raw \in {TestUsageRaw, MarkupRaw} }
        \cup { Return(NilUsage, NewAPIError(401, "Unauthorized", FALSE)),
               Return(NilUsage, Wrapf("request failed after 3 retries",
                                      Wrapf("failed to make request", TransportError))) }

\* the cache and the clocks outside any call
CacheIdle ==
    /\ now = 0
    /\ mono = 0
    /\ cacheFile = NoFile
    /\ cacheOp = NoCacheOp
    /\ lastWrite = NilUsage
    /\ fetch = NoFetch

----------------------------------------------------------------------------
(* Package claudecode: Settings *)

\* a Settings value: the nil map, or a map from member names to values
NilSettings == [nil |-> TRUE, m |-> <<>>]
SettingsOf(m) == [nil |-> FALSE, m |-> m]
EmptySettings == SettingsOf(<<>>)

\* the values of the members: a StatusLine struct, and what json.Unmarshal
\* builds (an object with type and command, a string, null)
StatusLine(type, command) == [t |-> "StatusLine", Type |-> type, Command |-> command]
StatusLineObject(type, command) == [t |-> "object", type |-> type, command |-> command]

ErrStatusLineExists == [type |-> "ErrStatusLineExists"]
\* a run-time panic, which unwinds the caller instead of returning
Panic(msg) == [type |-> "panic", msg |-> msg]

\* reading a nil map finds no key
HasStatusLine(s) == ~s.nil /\ "statusLine" \in DOMAIN s.m

\* SetStatusLine on the receiver s: the receiver afterwards and the error;
\* an assignment to an entry of a nil map panics
SetStatusLine(s, command, force) ==
    IF HasStatusLine(s) /\ ~force
    THEN [settings |-> s, err |-> ErrStatusLineExists]
    ELSE IF s.nil
    THEN [settings |-> s, err |-> Panic("assignment to entry in nil map")]
    ELSE [settings |->
            SettingsOf([k \in DOMAIN s.m \cup {"statusLine"} |->
                          IF k = "statusLine" THEN StatusLine("command", command) ELSE s.m[k]]),
          err |-> NoError]

\* settings files besides NoFile (no such file) and BadFile (content that
\* does not decode to a map): a file that exists and cannot be read, a file
\* holding null, a file holding an object
UnreadableFile == [kind |-> "unreadable"]
NullFile == [kind |-> "null"]
ObjectFile(m) == [kind |-> "object", m |-> m]

LoadSettings(file) ==
    IF file.kind = "missing" THEN [settings |-> EmptySettings, err |-> NoError]
    ELSE IF file.kind = "unreadable"
    THEN [settings |-> NilSettings, err |-> Wrapf("failed to read settings", PathError)]
    ELSE IF file.kind = "text"
    THEN [settings |-> NilSettings, err |-> Wrapf("failed to parse settings", SyntaxError)]
    ELSE IF file.kind = "null" THEN [settings |-> NilSettings, err |-> NoError]
    ELSE [settings |-> SettingsOf(file.m), err |-> NoError]

\* json.MarshalIndent of a member followed by json.Unmarshal: a StatusLine
\* struct is written as an object and read back as one
Encoded(v) == IF v.t = "StatusLine" THEN StatusLineObject(v.Type, v.Command) ELSE v

\* SaveSettings when the file system does fs; the error and the file afterwards
SaveSettings(file, s, fs) ==
    IF fs = "mkdir"
    THEN [err |-> Wrapf("failed to create settings directory", PathError), file |-> file]
    ELSE IF fs = "open"
    THEN [err |-> Wrapf("failed to write settings", PathError), file |-> file]
    ELSE IF fs = "write"
    THEN [err |-> Wrapf("failed to write settings", PathError), file |-> BadFile]
    ELSE [err |-> NoError,
          file |-> IF s.nil THEN NullFile
                   ELSE ObjectFile([k \in DOMAIN s.m |-> Encoded(s.m[k])])]

\* a call of SetStatusLine: the receiver before it, the arguments, the error
SetCall(before, command, force, err) ==
    [called |-> TRUE, before |-> before, command |-> command, force |-> force, err |-> err]
NoSetCall == [called |-> FALSE, before |-> NilSettings, command |-> "", force |-> FALSE, err |-> NoError]

----------------------------------------------------------------------------
(* The command install-script *)

\* the scripts of package scripts
AvailableScripts == {"bash", "powershell"}

Errorf(msg) == [type |-> "error", msg |-> msg]
AlreadyConfigured(settingsType) ==
    Errorf("statusLine already configured in " \o settingsType \o " settings")

\* the script file once written: which script, and the permission bits
ScriptFile(name, perm) == [kind |-> "script", name |-> name, perm |-> perm]

\* the files of a run: the target path, user and project settings
Files(script, user, project) == [script |-> script, user |-> user, project |-> project]
NoFiles == Files(NoFile, NoFile, NoFile)

\* the settings file the flags select
Selected(fs, project) == IF project THEN fs.project ELSE fs.user
SettingsType(project) == IF project THEN "project" ELSE "user"

\* (variant: nothing is checked before the script is written)
checkStatusLineConflictSkipped(file, force, project) == NoError

\* checkStatusLineConflict on the selected settings file
checkStatusLineConflict(file, force, project) ==
    IF force THEN NoError
    ELSE LET l == LoadSettings(file)
         IN  IF l.err # NoError THEN Wrapf("failed to load Claude Code settings", l.err)
             ELSE IF HasStatusLine(l.settings) THEN AlreadyConfigured(SettingsType(project))
             ELSE NoError

\* configureStatusLine on the selected settings file when the file system
\* does fs: the error (or the panic that ends the run) and the file afterwards
configureStatusLine(file, scriptPath, force, project, fs) ==
    LET l == LoadSettings(file)
    IN  IF l.err # NoError
        THEN [err |-> Wrapf("failed to load Claude Code settings", l.err), file |-> file]
        ELSE LET r == SetStatusLine(l.settings, scriptPath, force)
             IN  IF r.err = ErrStatusLineExists
                 THEN [err |-> AlreadyConfigured(SettingsType(project)), file |-> file]
                 ELSE IF r.err # NoError THEN [err |-> r.err, file |-> file]
                 ELSE LET w == SaveSettings(file, r.settings, fs)
                      IN  IF w.err # NoError
                          THEN [err |-> Wrapf("failed to save Claude Code settings", w.err),
                                file |-> w.file]
                          ELSE [err |-> NoError, file |-> w.file]

\* a run of install-script: the flags, the script name, the platform, the
\* files as the run found them, where the run is and the error it ended with
Install(position, force, list, project, name, windows, before, err) ==
    [pc |-> position, force |-> force, list |-> list, project |-> project, name |-> name,
     windows |-> windows, before |-> before, err |-> err]
NoInstall == Install("idle", FALSE, FALSE, FALSE, "", FALSE, NoFiles, NoError)

\* no Settings value in use, no run of install-script
InstallIdle ==
    /\ settings = NilSettings
    /\ setCall = NoSetCall
    /\ files = NoFiles
    /\ install = NoInstall

----------------------------------------------------------------------------
(* The components at rest *)

\* For each component: the variables of the other components, which its
\* actions leave unchanged, and their state when only this component runs.
exceptMatcher == <<retryVars, calls, backoffCall, cacheVars, installVars>>
OnlyMatcher ==
    /\ RetryIdle
    /\ CallsIdle
    /\ BackoffIdle
    /\ CacheIdle
    /\ InstallIdle

exceptRetry == <<matchVars, calls, backoffCall, cacheVars, installVars>>
OnlyRetry ==
    /\ MatcherIdle
    /\ CallsIdle
    /\ BackoffIdle
    /\ CacheIdle
    /\ InstallIdle

exceptCallers == <<matchVars, retryVars, backoffCall, cacheVars, installVars>>
OnlyCallers ==
    /\ MatcherIdle
    /\ RetryIdle
    /\ BackoffIdle
    /\ CacheIdle
    /\ InstallIdle

exceptBackoff == <<matchVars, retryVars, calls, cacheVars, installVars>>
OnlyBackoff ==
    /\ MatcherIdle
    /\ RetryIdle
    /\ CallsIdle
    /\ CacheIdle
    /\ InstallIdle

exceptCache == <<matchVars, retryVars, calls, backoffCall, installVars>>
OnlyCache ==
    /\ MatcherIdle
    /\ RetryIdle
    /\ CallsIdle
    /\ BackoffIdle
    /\ InstallIdle

exceptInstall == <<matchVars, retryVars, calls, backoffCall, cacheVars>>
OnlyInstall ==
    /\ MatcherIdle
    /\ RetryIdle
    /\ CallsIdle
    /\ BackoffIdle
    /\ CacheIdle

----------------------------------------------------------------------------
(* Inputs of SpecScore *)

\* the strings over alphabet (a set of one-character strings) of length <= n
RECURSIVE StringsUpTo(_, _)
StringsUpTo(alphabet, n) ==
    IF n = 0 THEN {""}
    ELSE LET shorter == StringsUpTo(alphabet, n - 1)
         IN  shorter \cup { s \o c : s \in shorter, c \in alphabet }

ScoreAlphabet == {"a", "b", "_"}

LongExact == Repeat("a", ExactBeatenLen)
LongSubstring == Repeat("a", SubstringBeatenLen)

\* the queries and targets of the package's tests, the numerals that overlap,
\* and the long queries
NamedQueries ==
    {"five_hour", "fivehour", "hour", "utilization", "5h", "xyz", "5", "24",
     "110", "124", "a_1_b", LongExact, LongSubstring}
NamedTargets ==
    {"five_hour", "five_hour_utilization", "a_1_b", "oneten", "elevenzero",
     LongExact \o "z", "az" \o Drop(LongExact, 1),
     LongSubstring \o "z", "az" \o Drop(LongSubstring, 1)}

ScoreQueries == StringsUpTo(ScoreAlphabet, MaxQueryLen) \cup NamedQueries
ScoreTargets == StringsUpTo(ScoreAlphabet, MaxTargetLen) \cup NamedTargets

\* what is written around a numeral: nothing, a letter, an underscore, a word
Affixes == {"", "a", "_", "hour"}

\* a two-character numeral of the table between two digit-free strings
NumeralQueries ==
    { a \o TwoCharKeys[i] \o b : i \in 1..Len(TwoCharKeys), a \in Affixes, b \in Affixes }

\* the inputs of TestExpandNumbers, and digit-free inputs with upper-case letters
ExpandTestQueries == {"5", "24", "5h", "24hour", "", "no numbers", "A_B", "Five"}

\* every string of one or two digits, all ten digits in a row, digits
\* between letters and underscores
DigitQueries ==
    LET D == { Char(Digits, i) : i \in 1..Len(Digits) }
    IN  D \cup { a \o b : a \in D, b \in D }
          \cup { "0123456789", "9876543210", "a7_3b", "x99", "2024_07" }

ExpandQueries == ScoreQueries \cup NumeralQueries \cup ExpandTestQueries \cup DigitQueries

----------------------------------------------------------------------------
(* SpecScore: calls of ExpandNumbers and Score *)

InitScore ==
    /\ numberWordKeys \in KeyOrders
    /\ doc = EmptyDoc
    /\ pairs = <<>>
    /\ query = ""
    /\ target = ""
    /\ expanded = ""
    /\ score = 0
    /\ match = NoMatchYet
    /\ pc = "start"
    /\ OnlyMatcher

ExpandStep ==
    /\ pc = "start"
    /\ \E s \in ExpandQueries :
        /\ query' = s
        /\ expanded' = ExpandNumbers(s)
    /\ pc' = "expanded"
    /\ UNCHANGED <<numberWordKeys, doc, pairs, target, score, match>>
    /\ UNCHANGED exceptMatcher

ScoreStep ==
    /\ pc = "start"
    /\ \E q \in ScoreQueries, t \in ScoreTargets :
        /\ query' = q
        /\ target' = t
        /\ score' = Score(q, t)
    /\ pc' = "scored"
    /\ UNCHANGED <<numberWordKeys, doc, pairs, expanded, match>>
    /\ UNCHANGED exceptMatcher

NextScore == ExpandStep \/ ScoreStep

SpecScore == InitScore /\ [][NextScore]_vars

----------------------------------------------------------------------------
(* Inputs of SpecMatch *)

DocKeys == {"a", "b", "a_b"}
DocLeaves == {Scalar("1"), Null}

KeysOf(entries) == { entries[i].k : i \in 1..Len(entries) }

\* ValuesOfSize(n): the values of exactly n nodes (n >= 1; a scalar, a null and
\* an empty mapping or array are one node); EntryLists(n): the entry lists
\* with distinct keys whose values have n nodes in all; ItemLists(n) alike.
RECURSIVE ValuesOfSize(_), EntryLists(_), ItemLists(_)
ValuesOfSize(n) ==
    IF n = 1 THEN DocLeaves \cup {MapOf(<<>>), ArrayOf(<<>>)}
    ELSE { MapOf(e) : e \in EntryLists(n - 1) } \cup { ArrayOf(e) : e \in ItemLists(n - 1) }

EntryLists(n) ==
    IF n = 0 THEN {<<>>}
    ELSE UNION { LET values == ValuesOfSize(m)
                     rests == EntryLists(n - m)
                 IN  UNION { { <<Entry(k, v)>> \o rest : k \in DocKeys \ KeysOf(rest),
                                                         v \in values } :
                             rest \in rests } :
                 m \in 1..n }

ItemLists(n) ==
    IF n = 0 THEN {<<>>}
    ELSE UNION { LET values == ValuesOfSize(m)
                     rests == ItemLists(n - m)
                 IN  { <<v>> \o rest : v \in values, rest \in rests } :
                 m \in 1..n }

GeneratedDocs == { MapOf(e) : e \in UNION { EntryLists(n) : n \in 0..MaxNodes } }

\* the orders in which a range statement can visit the entries
Orderings(entries) ==
    { [i \in 1..Len(entries) |-> entries[f[i]]] :
        f \in { g \in [1..Len(entries) -> 1..Len(entries)] :
                    \A i, j \in 1..Len(entries) : i # j => g[i] # g[j] } }

\* the usage response: a mapping per window, with its utilization and reset time
UsageDocs ==
    { MapOf(<<Entry("five_hour", MapOf(inner))>>) :
        inner \in Orderings(<<Entry("utilization", Scalar("75.5")),
                                 Entry("resets_at", Scalar("2026-01-01T00:00:00Z"))>>) }

\* the entries of TestFindBestMatch, as a document
ReferenceDocs ==
    { MapOf(e) :
        e \in Orderings(<<Entry("five_hour_utilization", Scalar("75.5")),
                             Entry("weekly_limit", Scalar("100")),
                             Entry("context_window_utilization", Scalar("50.0"))>>) }

\* the document of TestFlattenData
FlattenTestDocs ==
    { MapOf(e) :
        e \in Orderings(<<Entry("simple", Scalar("value")),
                             Entry("nested", MapOf(<<Entry("inner", Scalar("42"))>>)),
                             Entry("array", ArrayOf(<<MapOf(<<Entry("item", Scalar("first"))>>),
                                                      MapOf(<<Entry("item", Scalar("second"))>>)>>)),
                             Entry("nil_value", Null)>>) }

\* the array of scenario 4, alone in its document
ArrayExampleDoc ==
    MapOf(<<Entry("array", ArrayOf(<<MapOf(<<Entry("item", Scalar("first"))>>),
                                     MapOf(<<Entry("item", Scalar("second"))>>)>>))>>)

\* the same mappings among elements that the type assertion of line 118 rejects
MixedArrayDoc ==
    MapOf(<<Entry("array", ArrayOf(<<Scalar("x"),
                                     MapOf(<<Entry("item", Scalar("first"))>>),
                                     ArrayOf(<<Scalar("y")>>),
                                     Null,
                                     MapOf(<<Entry("item", Scalar("second"))>>)>>))>>)

ArrayDocs == {ArrayExampleDoc, MixedArrayDoc}

\* a mapping and an array under the empty key, whose path is the empty prefix
EmptyKeyDocs ==
    { MapOf(<<Entry("", MapOf(<<Entry("b", Scalar("1"))>>))>>),
      MapOf(<<Entry("", ArrayOf(<<MapOf(<<Entry("b", Scalar("1"))>>)>>))>> ) }

\* keys that spell the two readings of the numeral 110
NumeralDocs ==
    { MapOf(<<Entry("oneten", Scalar("1"))>>),
      MapOf(<<Entry("elevenzero", Scalar("1"))>>) }

Docs ==
    GeneratedDocs \cup UsageDocs \cup ReferenceDocs \cup FlattenTestDocs
        \cup ArrayDocs \cup EmptyKeyDocs \cup NumeralDocs

PathsOf(ps) == { ps[i].Path : i \in 1..Len(ps) }

\* the queries tried on every document, besides the paths of its own entries
GenericQueries == {"", "_", "a", "A_B", "ab", "1"}

\* the queries of the README, of TestFindBestMatch and of the status-line
\* script, tried on the documents they are written for
FieldQueries == {"five", "5h", "weekly", "context", "nonexistent", "five_hour_reset"}

\* numerals in which two two-character numerals of the table overlap
OverlapQueries == {"110", "124"}

QueriesFor(d, ps) ==
    GenericQueries \cup PathsOf(ps)
        \cup (IF d \in GeneratedDocs THEN {} ELSE FieldQueries)
        \cup (IF d \in NumeralDocs THEN OverlapQueries ELSE {})

----------------------------------------------------------------------------
(* SpecMatch: printMatchedValue flattens the document and matches the query *)

InitMatch ==
    /\ numberWordKeys \in KeyOrders
    /\ doc \in Docs
    /\ pairs = <<>>
    /\ query = ""
    /\ target = ""
    /\ expanded = ""
    /\ score = 0
    /\ match = NoMatchYet
    /\ pc = "start"
    /\ OnlyMatcher

FlattenStep ==
    /\ pc = "start"
    /\ pairs' = FlattenData(doc, "")
    /\ pc' = "flattened"
    /\ UNCHANGED <<numberWordKeys, doc, query, target, expanded, score, match>>
    /\ UNCHANGED exceptMatcher

MatchStep ==
    /\ pc = "flattened"
    /\ \E q \in QueriesFor(doc, pairs) :
        /\ query' = q
        /\ match' = FindBestMatch(pairs, q)
    /\ pc' = "done"
    /\ UNCHANGED <<numberWordKeys, doc, pairs, target, expanded, score>>
    /\ UNCHANGED exceptMatcher

NextMatch == FlattenStep \/ MatchStep

SpecMatch == InitMatch /\ [][NextMatch]_vars

----------------------------------------------------------------------------
(* SpecRetry: one call of Client.GetUsage against a server that answers as   *)
(* it likes                                                                  *)

InitRetry ==
    /\ OnlyRetry
    /\ urlOK \in BOOLEAN
    /\ attempt = 0
    /\ lastErr = NoError
    /\ sleeps = <<>>
    /\ inflight = 0
    /\ responses = <<>>
    /\ result = NoResult
    /\ rpc = "loop"

\* the head of the loop: the condition holds; sleep unless this is the first attempt
Iterate ==
    /\ rpc = "loop"
    /\ LoopContinues(attempt)
    /\ sleeps' = IF attempt > 0 THEN Append(sleeps, backoffDuration(attempt - 1)) ELSE sleeps
    /\ rpc' = "request"
    /\ UNCHANGED <<urlOK, attempt, lastErr, inflight, responses, result>>
    /\ UNCHANGED exceptRetry

\* the loop ends without a return: every attempt failed and was retriable
Exhausted ==
    /\ rpc = "loop"
    /\ ~LoopContinues(attempt)
    /\ result' = Return(NilUsage, Wrapf("request failed after 3 retries", lastErr))
    /\ rpc' = "done"
    /\ UNCHANGED <<urlOK, attempt, lastErr, sleeps, inflight, responses>>
    /\ UNCHANGED exceptRetry

\* doRequest up to httpClient.Do: the request is built and sent, or
\* http.NewRequest fails and GetUsage returns that error (retry is false)
SendRequest ==
    /\ rpc = "request"
    /\ IF urlOK
       THEN /\ inflight' = inflight + 1
            /\ rpc' = "wait"
            /\ UNCHANGED <<lastErr, result>>
       ELSE LET err == Wrapf("failed to create request", URLError)
            IN  /\ lastErr' = err
                /\ result' = Return(NilUsage, err)
                /\ rpc' = "done"
                /\ UNCHANGED inflight
    /\ UNCHANGED <<urlOK, attempt, sleeps, responses>>
    /\ UNCHANGED exceptRetry

\* httpClient.Do returns with what the server did; the rest of doRequest and
\* of the loop body
ReceiveAnswer ==
    /\ rpc = "wait"
    /\ \E a \in Answers :
        LET out == doRequest(a)
        IN  /\ responses' = Append(responses, a)
            /\ inflight' = inflight - 1
            /\ IF out.err = NoError
               THEN /\ result' = Return(out.usage, NoError)
                    /\ rpc' = "done"
                    /\ UNCHANGED <<attempt, lastErr>>
               ELSE /\ lastErr' = out.err
                    /\ IF ~out.retry
                       THEN /\ result' = Return(NilUsage, out.err)
                            /\ rpc' = "done"
                            /\ UNCHANGED attempt
                       ELSE /\ attempt' = attempt + 1
                            /\ rpc' = "loop"
                            /\ UNCHANGED result
    /\ UNCHANGED <<urlOK, sleeps>>
    /\ UNCHANGED exceptRetry

NextRetry == Iterate \/ Exhausted \/ SendRequest \/ ReceiveAnswer

SpecRetry == InitRetry /\ [][NextRetry]_vars

\* The goroutine that runs GetUsage keeps running: time.Sleep returns, and
\* httpClient.Do returns because the client's Timeout is 30 seconds.
SpecRetryFair == SpecRetry /\ WF_vars(NextRetry)

----------------------------------------------------------------------------
(* SpecConcurrent: two goroutines, each with a document and a query of its   *)
(* own, call FlattenData and then FindBestMatch                              *)

\* the documents and queries of the concurrent callers
CallDocs ==
    UsageDocs \cup NumeralDocs
        \cup { MapOf(<<Entry("five_hour_utilization", Scalar("75.5")),
                       Entry("weekly_limit", Scalar("100")),
                       Entry("context_window_utilization", Scalar("50.0"))>>) }
CallQueries == {"five", "weekly", "110"}

InitConcurrent ==
    /\ OnlyCallers
    /\ calls \in [Callers -> { Call(d, q, "start") : d \in CallDocs, q \in CallQueries }]

\* caller c runs FlattenData on its document; FlattenData appends to slices
\* of its own only
CallFlatten(c) ==
    /\ calls[c].pc = "start"
    /\ calls' = [calls EXCEPT ![c].pairs = FlattenData(calls[c].doc, ""),
                              ![c].pc = "loop"]
    /\ UNCHANGED exceptCallers

\* caller c runs one iteration of the loop of FindBestMatch
CallScore(c) ==
    /\ calls[c].pc = "loop"
    /\ calls[c].i <= Len(calls[c].pairs)
    /\ calls' = ScoreIteration(calls, c)
    /\ UNCHANGED exceptCallers

\* the loop of caller c is over: FindBestMatch returns
CallReturn(c) ==
    /\ calls[c].pc = "loop"
    /\ calls[c].i > Len(calls[c].pairs)
    /\ LET me == calls[c]
           res == IF me.bestMatch = 0 \/ me.bestScore = 0
                  THEN [err |-> "ErrNoMatch", query |-> me.query, idx |-> 0, kv |-> NoKeyValue]
                  ELSE [err |-> "nil", query |-> "", idx |-> me.bestMatch,
                        kv |-> me.pairs[me.bestMatch]]
       IN  calls' = [calls EXCEPT ![c].result = res, ![c].pc = "done"]
    /\ UNCHANGED exceptCallers

NextConcurrent == \E c \in Callers : CallFlatten(c) \/ CallScore(c) \/ CallReturn(c)

SpecConcurrent == InitConcurrent /\ [][NextConcurrent]_vars

----------------------------------------------------------------------------
(* SpecBackoff: backoffDuration called on its own with any attempt number,   *)
(* or from the loop of GetUsage                                              *)

\* the largest attempt number backoffDuration is called with
MaxBackoffArg == 100

InitBackoff ==
    /\ OnlyBackoff
    /\ \E n \in 0..MaxBackoffArg : backoffCall = BackoffCall(n, FALSE, 0)

BackoffStep ==
    /\ backoffCall # NoBackoffCall
    /\ ~backoffCall.returned
    /\ backoffCall' = BackoffCall(backoffCall.attempt, TRUE, backoffDuration(backoffCall.attempt))
    /\ UNCHANGED exceptBackoff

NextBackoff == BackoffStep \/ NextRetry

SpecBackoff == (InitBackoff \/ InitRetry) /\ [][NextBackoff]_vars

----------------------------------------------------------------------------
(* SpecCache: calls of Cache.Read and Cache.Write on one cache file, one     *)
(* after the other, while the clocks run                                     *)

\* the clocks run up to MaxTime ticks; the TTLs are -1..MaxTTL seconds
MaxTime == 4
MaxTTL == 1
TTLs == -1..MaxTTL

\* the zero time.Time, which a document without "timestamp" decodes to:
\* older than every TTL at every clock reading
ZeroTime == Time(0 - (MaxTTL + 1) * TicksPerSecond - 1, FALSE, 0)

\* what the file holds before the first call: nothing, damaged content, {},
\* an entry without usage, an entry with a null usage, an entry of an
\* earlier run
InitialFiles ==
    {NoFile, BadFile, DataFile(ZeroTime, ""),
     DataFile(Time(0, FALSE, 0), ""),
     DataFile(Time(0, FALSE, 0), "null"),
     DataFile(Time(0, FALSE, 0), Compact(TestUsageRaw))}

InitCache ==
    /\ OnlyCache
    /\ now = 0
    /\ mono = 0
    /\ cacheFile \in InitialFiles
    /\ cacheOp = NoCacheOp
    /\ lastWrite = NilUsage
    /\ fetch = NoFetch

\* time passes
ClockAdvance ==
    /\ now < MaxTime
    /\ mono < MaxTime
    /\ now' = now + 1
    /\ mono' = mono + 1
    /\ UNCHANGED <<cacheFile, cacheOp, lastWrite, fetch>>
    /\ UNCHANGED exceptCache

\* the wall clock is set back (by hand, or by a time synchronisation step)
ClockSetBack ==
    /\ now > 0
    /\ now' = now - 1
    /\ UNCHANGED <<mono, cacheFile, cacheOp, lastWrite, fetch>>
    /\ UNCHANGED exceptCache

WriteStep ==
    /\ \E raw \in UsageRaws, fs \in FileSystemOutcomes :
        LET w == Write(Usage(raw), fs)
        IN  /\ cacheFile' = w.file
            /\ cacheOp' = CacheOp("write", 0, now, NilUsage, w.err)
            /\ lastWrite' = IF w.err = NoError THEN Usage(raw) ELSE NilUsage
    /\ UNCHANGED <<now, mono, fetch>>
    /\ UNCHANGED exceptCache

ReadStep ==
    /\ \E ttlSeconds \in TTLs :
        LET r == Read(ttlSeconds)
        IN  cacheOp' = CacheOp("read", ttlSeconds, now, r.usage, r.err)
    /\ UNCHANGED <<now, mono, cacheFile, lastWrite, fetch>>
    /\ UNCHANGED exceptCache

NextCache == ClockAdvance \/ ClockSetBack \/ WriteStep \/ ReadStep

SpecCache == InitCache /\ [][NextCache]_vars

----------------------------------------------------------------------------
(* SpecUsage: one call of getUsageWithCache, while the clocks run            *)

\* the default of the --cache flag, in seconds
DefaultCacheTTL == 30

InitUsage ==
    /\ OnlyCache
    /\ now = 0
    /\ mono = 0
    /\ cacheFile \in InitialFiles
    /\ cacheOp = NoCacheOp
    /\ lastWrite = NilUsage
    /\ \E ttl \in TTLs \cup {DefaultCacheTTL} :
          fetch = Fetch("start", ttl, <<>>, NilUsage, NoResult)

\* the cache is tried if the TTL is positive; a hit is returned
TryCache ==
    /\ fetch.pc = "start"
    /\ IF UseCache(fetch.ttl)
       THEN LET r == Read(fetch.ttl)
            IN  /\ cacheOp' = CacheOp("read", fetch.ttl, now, r.usage, r.err)
                /\ fetch' = IF CacheHit(r.err)
                            THEN [fetch EXCEPT !.pc = "done", !.did = Append(@, "read"),
                                               !.ret = Return(r.usage, NoError)]
                            ELSE [fetch EXCEPT !.pc = "auth", !.did = Append(@, "read")]
       ELSE /\ fetch' = [fetch EXCEPT !.pc = "auth"]
            /\ UNCHANGED cacheOp
    /\ UNCHANGED <<now, mono, cacheFile, lastWrite>>
    /\ UNCHANGED exceptCache

\* ResolveAuth finds the credentials or fails
Authenticate ==
    /\ fetch.pc = "auth"
    /\ \E found \in BOOLEAN :
        fetch' = IF found
                 THEN [fetch EXCEPT !.pc = "http", !.did = Append(@, "auth")]
                 ELSE [fetch EXCEPT !.pc = "done", !.did = Append(@, "auth"),
                                    !.ret = Return(NilUsage, AuthError)]
    /\ UNCHANGED <<now, mono, cacheFile, cacheOp, lastWrite>>
    /\ UNCHANGED exceptCache

\* client.GetUsage returns
FetchUsage ==
    /\ fetch.pc = "http"
    /\ \E g \in GetUsageReturns :
        fetch' = IF g.err # NoError
                 THEN [fetch EXCEPT !.pc = "done", !.did = Append(@, "fetch"),
                                    !.ret = Return(NilUsage, g.err)]
                 ELSE [fetch EXCEPT !.pc = "save", !.did = Append(@, "fetch"),
                                    !.usage = g.usage]
    /\ UNCHANGED <<now, mono, cacheFile, cacheOp, lastWrite>>
    /\ UNCHANGED exceptCache

\* the usage is saved if the TTL is positive, and returned whatever Write did
SaveAndReturn ==
    /\ fetch.pc = "save"
    /\ IF UseCache(fetch.ttl)
       THEN \E fs \in FileSystemOutcomes :
            LET w == Write(fetch.usage, fs)
            IN  /\ cacheFile' = w.file
                /\ cacheOp' = CacheOp("write", 0, now, NilUsage, w.err)
                /\ lastWrite' = IF w.err = NoError THEN fetch.usage ELSE NilUsage
                /\ fetch' = [fetch EXCEPT !.pc = "done", !.did = Append(@, "write"),
                                          !.ret = Return(fetch.usage, NoError)]
       ELSE /\ fetch' = [fetch EXCEPT !.pc = "done", !.ret = Return(fetch.usage, NoError)]
            /\ UNCHANGED <<cacheFile, cacheOp, lastWrite>>
    /\ UNCHANGED <<now, mono>>
    /\ UNCHANGED exceptCache

NextUsage ==
    \/ ClockAdvance \/ ClockSetBack
    \/ TryCache \/ Authenticate \/ FetchUsage \/ SaveAndReturn

SpecUsage == InitUsage /\ [][NextUsage]_vars

----------------------------------------------------------------------------
(* SpecSettings: calls of Settings.SetStatusLine                             *)

\* maps with the members in ks, each with one of the values it can have
MemberValues ==
    [statusLine |-> {Null, Scalar("old"), StatusLineObject("command", "existing")},
     mcpServers |-> {Scalar("{}")},
     model |-> {Scalar("opus"), Null}]
MapsOver(ks) == UNION { [K -> UNION { MemberValues[k] : k \in K }] : K \in SUBSET ks }
SettingsMaps ==
    { m \in MapsOver({"statusLine", "mcpServers", "model"}) :
        \A k \in DOMAIN m : m[k] \in MemberValues[k] }

Commands == {"/path/to/script.sh", "existing"}

InitSettings ==
    /\ OnlyInstall
    /\ settings \in {NilSettings} \cup { SettingsOf(m) : m \in SettingsMaps }
    /\ setCall = NoSetCall
    /\ files = NoFiles
    /\ install = NoInstall

SetStatusLineStep ==
    /\ setCall.err.type # "panic"
    /\ \E command \in Commands, force \in BOOLEAN :
        LET r == SetStatusLine(settings, command, force)
        IN  /\ settings' = r.settings
            /\ setCall' = SetCall(settings, command, force, r.err)
    /\ UNCHANGED <<files, install>>
    /\ UNCHANGED exceptInstall

NextSettings == SetStatusLineStep

SpecSettings == InitSettings /\ [][NextSettings]_vars

----------------------------------------------------------------------------
(* SpecInstall: one run of install-script <name> <path>; no other program    *)
(* touches the files during the run                                          *)

\* the path the script is written to, as SetStatusLine receives it
ScriptPath == "/path/to/script.sh"

\* what a settings file can hold when the run starts
InstallSettingsFiles ==
    {NoFile, UnreadableFile, BadFile, NullFile,
     ObjectFile(<<>>),
     ObjectFile([model |-> Scalar("opus")]),
     ObjectFile([statusLine |-> Null]),
     ObjectFile([statusLine |-> StatusLineObject("command", "existing")]),
     ObjectFile([statusLine |-> StatusLineObject("command", "existing"), model |-> Scalar("opus")])}

InitInstall ==
    /\ OnlyInstall
    /\ settings = NilSettings
    /\ setCall = NoSetCall
    /\ \E script \in {NoFile, ScriptFile("bash", "0755")},
          user \in InstallSettingsFiles, project \in InstallSettingsFiles :
          files = Files(script, user, project)
    /\ \E force \in BOOLEAN, list \in BOOLEAN, project \in BOOLEAN, windows \in BOOLEAN,
          name \in AvailableScripts \cup {"fish"} :
          install = Install("start", force, list, project, name, windows, files, NoError)

\* --list, scripts.Get and the test of the target path
CheckTarget ==
    /\ install.pc = "start"
    /\ install' =
          IF install.list THEN [install EXCEPT !.pc = "done"]
          ELSE IF install.name \notin AvailableScripts
          THEN [install EXCEPT !.pc = "done", !.err = Errorf("unknown script: " \o install.name)]
          ELSE IF files.script # NoFile /\ ~install.force
          THEN [install EXCEPT !.pc = "done", !.err = Errorf("file already exists")]
          ELSE [install EXCEPT !.pc = "check"]
    /\ UNCHANGED <<settings, setCall, files>>
    /\ UNCHANGED exceptInstall

CheckConflict ==
    /\ install.pc = "check"
    /\ LET err == checkStatusLineConflict(Selected(files, install.project),
                                          install.force, install.project)
       IN  install' = IF err # NoError
                      THEN [install EXCEPT !.pc = "done", !.err = err]
                      ELSE [install EXCEPT !.pc = "write"]
    /\ UNCHANGED <<settings, setCall, files>>
    /\ UNCHANGED exceptInstall

\* os.WriteFile of the script: it succeeds, the file cannot be opened, or the
\* write fails after the file was opened and truncated
WriteScript ==
    /\ install.pc = "write"
    /\ LET perm == IF install.name = "bash" /\ ~install.windows THEN "0755" ELSE "0644"
           kept == IF files.script = NoFile THEN perm ELSE files.script.perm
       IN  \E fs \in {"ok", "open", "write"} :
            IF fs = "ok"
            THEN /\ files' = [files EXCEPT !.script = ScriptFile(install.name, kept)]
                 /\ install' = [install EXCEPT !.pc = "configure"]
            ELSE /\ files' = IF fs = "open" THEN files
                             ELSE [files EXCEPT !.script = ScriptFile("", kept)]
                 /\ install' = [install EXCEPT !.pc = "done",
                                  !.err = Wrapf("failed to write script", PathError)]
    /\ UNCHANGED <<settings, setCall>>
    /\ UNCHANGED exceptInstall

Configure ==
    /\ install.pc = "configure"
    /\ \E fs \in FileSystemOutcomes :
        LET r == configureStatusLine(Selected(files, install.project), ScriptPath,
                                     install.force, install.project, fs)
        IN  /\ files' = IF install.project THEN [files EXCEPT !.project = r.file]
                        ELSE [files EXCEPT !.user = r.file]
            /\ install' = [install EXCEPT !.pc = "done", !.err = r.err]
    /\ UNCHANGED <<settings, setCall>>
    /\ UNCHANGED exceptInstall

NextInstall == CheckTarget \/ CheckConflict \/ WriteScript \/ Configure

SpecInstall == InitInstall /\ [][NextInstall]_vars

----------------------------------------------------------------------------
(* Notions the properties are stated with *)

\* The positions of nt at which an embedding of the query characters lo..hi
\* can end, given the positions ends at which an embedding of the characters
\* before lo can end (0: before the first character). Every embedding is
\* followed, not only the leftmost one.
RECURSIVE EmbeddingEnds(_, _, _, _, _)
EmbeddingEnds(ends, nq, nt, lo, hi) ==
    IF lo > hi THEN ends
    ELSE IF lo = hi
         THEN { j \in 1..Len(nt) : Char(nt, j) = Char(nq, lo) /\ \E k \in ends : k < j }
    ELSE LET mid == (lo + hi) \div 2
             left == EmbeddingEnds(ends, nq, nt, lo, mid)
         IN  IF left = {} THEN {}
             ELSE EmbeddingEnds(left, nq, nt, mid + 1, hi)

\* every character of nq appears in nt, in the same relative order
IsSubsequence(nq, nt) == EmbeddingEnds({0}, nq, nt, 1, Len(nq)) # {}

\* nq occurs in nt as a contiguous block
IsSubstring(nq, nt) ==
    \E i \in 1..(Len(nt) - Len(nq) + 1) :
        \A k \in 1..Len(nq) : Char(nt, i + k - 1) = Char(nq, k)

\* the number of non-null scalar leaves of v that are reached through mappings
\* and through the elements of arrays that are mappings
RECURSIVE LeafCount(_), LeafCountFrom(_, _, _)
LeafCount(v) ==
    CASE v.t = "scalar" -> 1
      [] v.t = "null" -> 0
      [] v.t = "map" -> LeafCountFrom(v.e, 1, FALSE)
      [] v.t = "arr" -> LeafCountFrom(v.e, 1, TRUE)

\* the sum over the entries (of a mapping) or elements (of an array) from i on
LeafCountFrom(items, i, ofArray) ==
    IF i > Len(items) THEN 0
    ELSE (IF ofArray
          THEN (IF items[i].t = "map" THEN LeafCount(items[i]) ELSE 0)
          ELSE LeafCount(items[i].v))
         + LeafCountFrom(items, i + 1, ofArray)

\* the elements of a sequence
Range(seq) == { seq[i] : i \in 1..Len(seq) }

\* r with the prefix p before its Path: p and an underscore unless p is empty
Under(p, r) == KeyValue(IF p = "" THEN r.Path ELSE p \o "_" \o r.Path, r.Key, r.Value)

\* the entries a key k of the document with value v must give: itself for a
\* scalar, those of the mapping under k, those of the mapping at the 1-based
\* position j of the array under k and j
EntryPairs(k, v) ==
    CASE v.t = "scalar" -> { KeyValue(k, k, v.v) }
      [] v.t = "null" -> {}
      [] v.t = "map" -> { Under(k, r) : r \in Range(FlattenData(v, "")) }
      [] v.t = "arr" ->
            UNION { IF v.e[j].t = "map"
                    THEN { Under(k \o "_" \o Itoa(j), r) : r \in Range(FlattenData(v.e[j], "")) }
                    ELSE {} :
                    j \in 1..Len(v.e) }

\* the orders in which a run can range over the top-level mapping of d
Rangings(d) == { MapOf(e) : e \in Orderings(d.e) }

\* no entry of ps scores above 0 for q when the numerals are replaced in the
\* order keys
NoMatchWith(keys, ps, q) ==
    \A i \in 1..Len(ps) : ScoreWith(keys, ToLower(q), ToLower(ps[i].Path)) = 0

\* a is a failure that GetUsage retries: no answer, an unreadable body, or a
\* status that is 429 or at least 500 (the body of an answer whose status is
\* not 200 is read without looking at the error of the read)
RetriableFailure(a) ==
    \/ a.kind = "transport"
    \/ a.kind = "unreadable" /\ a.code = 200
    \/ a.kind \in {"http", "unreadable"} /\ (a.code = 429 \/ a.code >= 500)

\* a is a 200 whose body parses
Success(a) == a.kind = "http" /\ a.code = 200 /\ a.body \in ValidJSON

\* the status codes of the answers so far, 0 for no answer
Codes == [i \in 1..Len(responses) |-> responses[i].code]

\* documents that denote the same JSON value: each raw document of the
\* model and the same value written without blanks and with escaped markup
SameValue ==
    { {TestUsageRaw, "{\"five_hour_utilization\":75.5}"},
      {TestBody, "{\"test\":\"data\"}"},
      {BlankInStringRaw, "{\"a\":\"x y\"}"},
      {MarkupRaw, "{\"a\":\"\\u003cb\\u003e\"}", "{\"a\":\"<b>\"}"},
      {EscapedQuoteRaw, "{\"a\":\"\\\" \"}"} }
SameJSON(a, b) == \E c \in SameValue : a \in c /\ b \in c

\* s holds an ASCII digit
HasDigit(s) == \E i \in 1..Len(s) : Contains(Digits, Char(s, i))

\* the numerals of the table that are two characters long
TwoDigitNumerals == { k \in DOMAIN numberWords : Len(k) = 2 }

\* s without its underscores
RECURSIVE WithoutUnderscores(_, _)
WithoutUnderscores(s, i) ==
    IF i > Len(s) THEN ""
    ELSE (IF Char(s, i) = "_" THEN "" ELSE Char(s, i)) \o WithoutUnderscores(s, i + 1)

----------------------------------------------------------------------------
(* Properties *)

\* C1: for every entry {P, V} of the flattened document, matching the query P
\* succeeds, Score(lower(P), lower(P)) is 1000 and the entry returned has
\* value V (the exact-match identity law).
C1_ExactMatchIdentity ==
    pc = "done" =>
        \A i \in 1..Len(pairs) :
            pairs[i].Path = query =>
                /\ match.err = "nil"
                /\ Score(ToLower(query), ToLower(query)) = 1000
                /\ match.kv.Value = pairs[i].Value

\* C2: no two entries of FlattenData(doc, "") have the same Path.
C2_PathsUnique ==
    pc # "start" =>
        \A i, j \in 1..Len(pairs) : i # j => pairs[i].Path # pairs[j].Path

\* C3: the results of ExpandNumbers and of Score are the same for every
\* order in which numberWordKeys can hold the numerals of equal length.
C3_OrderIndependent ==
    /\ pc = "expanded" => \A keys \in KeyOrders : ExpandWith(keys, query) = expanded
    /\ pc = "scored" => \A keys \in KeyOrders : ScoreWith(keys, query, target) = score

\* C4: on a usage document whose five_hour mapping holds a utilization and a
\* reset time, the query "five" returns the entry five_hour_utilization,
\* whatever the order in which the mappings are ranged over.
C4_FiveIsUtilization ==
    pc = "done" /\ doc \in UsageDocs /\ query = "five" =>
        /\ match.err = "nil"
        /\ match.kv.Path = "five_hour_utilization"

\* C5: the empty query never matches: Score("", t) is 0 for every target, and
\* FindBestMatch(pairs, "") returns the NoMatch error for every list of pairs.
C5_EmptyQueryNoMatch ==
    pc = "done" /\ query = "" =>
        /\ match.err = "ErrNoMatch"
        /\ match.idx = 0
        /\ \A i \in 1..Len(pairs) : Score("", ToLower(pairs[i].Path)) = 0

C5_Witness ==
    /\ pc = "done"
    /\ query = ""
    /\ Len(pairs) >= 2
    /\ match.err = "ErrNoMatch"

\* C6: for a non-empty query, when ExpandNumbers(query) without its
\* underscores equals the target without its underscores, Score is 1000.
C6_ExactIs1000 ==
    pc = "scored" /\ query # ""
        /\ WithoutUnderscores(ExpandNumbers(query), 1) = WithoutUnderscores(target, 1)
    => score = 1000

C6_Witness ==
    /\ pc = "scored"
    /\ query = "fivehour"
    /\ target = "five_hour"
    /\ score = 1000

\* C7: every score is between 0 and 1000: no substring or subsequence match
\* exceeds the score of an exact match, whatever the length of the query.
C7_ScoreRange ==
    pc = "scored" => 0 <= score /\ score <= 1000

\* C8: when the normalized query is non-empty, differs from the normalized
\* target and occurs in it as a contiguous substring, Score is 500 plus the
\* length of the normalized query, plus 100 iff the normalized target ends
\* with it; so against the same target a suffix query scores higher than
\* every non-suffix substring query that is not longer.
C8_SubstringScore ==
    pc = "scored" =>
        LET nq == NormalizeQuery(query)
            nt == NormalizeTarget(target)
        IN  nq # "" /\ nq # nt /\ IsSubstring(nq, nt) =>
                /\ score = 500 + Len(nq) + (IF HasSuffix(nt, nq) THEN 100 ELSE 0)
                /\ HasSuffix(nt, nq) =>
                    \A q2 \in ScoreQueries :
                        LET nq2 == NormalizeQuery(q2)
                        IN  nq2 # "" /\ nq2 # nt /\ IsSubstring(nq2, nt)
                                /\ ~HasSuffix(nt, nq2) /\ Len(nq2) <= Len(nq)
                            => score > Score(q2, target)

C8_Witness ==
    /\ pc = "scored"
    /\ query = "utilization"
    /\ target = "five_hour_utilization"
    /\ score = 611
    /\ Score("hour", target) = 504

\* C9: if the query matches one target exactly or as a contiguous substring
\* and another target only as a non-contiguous subsequence, the first target
\* scores higher, for queries of any length.
C9_SubstringDominates ==
    pc = "scored" =>
        LET nq == NormalizeQuery(query)
            nt == NormalizeTarget(target)
        IN  nq # "" /\ (nq = nt \/ IsSubstring(nq, nt)) =>
                \A t2 \in ScoreTargets :
                    LET nt2 == NormalizeTarget(t2)
                    IN  ~IsSubstring(nq, nt2) /\ IsSubsequence(nq, nt2)
                        => score > Score(query, t2)

C11_LongestFirst ==
    pc = "expanded" =>
        /\ \A i \in 1..(Len(query) - 1) :
              LET a == SubSeq(query, 1, i - 1)
                  k == SubSeq(query, i, i + 1)
                  b == Drop(query, i + 1)
              IN  k \in TwoDigitNumerals /\ ~HasDigit(a) /\ ~HasDigit(b)
                  => expanded = a \o numberWords[k] \o b
        /\ query = "24" => expanded = "twentyfour"
        /\ query = "24hour" => expanded = "twentyfourhour"

C11_Witness ==
    /\ pc = "expanded"
    /\ query = "24hour"
    /\ expanded = "twentyfourhour"

\* C12: ExpandNumbers returns its input unchanged when the input holds no
\* ASCII digit, the empty string included.
C12_DigitFreeIdentity ==
    pc = "expanded" /\ ~HasDigit(query) => expanded = query

C12_Witness ==
    /\ pc = "expanded"
    /\ query = "A_B"
    /\ ~HasDigit(query)
    /\ expanded = "A_B"

\* C13: FlattenData(doc, "") has no entry for a null value, and as many
\* entries as doc has non-null scalar leaves reachable through mappings and
\* through array elements that are mappings (the other elements of an array
\* give nothing); an empty mapping gives an empty list.
C13_SkipNullCount ==
    pc # "start" =>
        /\ Len(pairs) = LeafCount(doc)
        /\ \A i \in 1..Len(pairs) : pairs[i].Value # NilValue
        /\ doc.e = <<>> => pairs = <<>>

C13_Witness ==
    /\ pc = "flattened"
    /\ doc \in FlattenTestDocs
    /\ Len(pairs) = 4
    /\ \A i \in 1..Len(pairs) : pairs[i].Key # "nil_value"

\* C14: the path of an entry is its key under the empty prefix and the
\* prefix, an underscore and the key otherwise; the mapping at the 1-based
\* position i of the array at path p is flattened under p, an underscore and
\* i, where i counts the skipped elements too. The array of scenario 4 gives
\* exactly array_1_item = "first" and array_2_item = "second".
C14_PathsAndIndexes ==
    pc # "start" =>
        /\ Range(pairs) = UNION { EntryPairs(doc.e[i].k, doc.e[i].v) : i \in 1..Len(doc.e) }
        /\ doc = ArrayExampleDoc =>
              pairs = << KeyValue("array_1_item", "item", "first"),
                         KeyValue("array_2_item", "item", "second") >>

C14_Witness ==
    /\ pc = "flattened"
    /\ doc = MixedArrayDoc
    /\ pairs = << KeyValue("array_2_item", "item", "first"),
                  KeyValue("array_5_item", "item", "second") >>

\* C15: when FindBestMatch succeeds, no entry of pairs scores more against
\* the lower-cased query than the entry returned, and the entry returned is
\* the one of smallest index among those that score as much (first seen wins).
C15_BestMatchSelection ==
    pc = "done" /\ match.err = "nil" =>
        LET S(i) == Score(ToLower(query), ToLower(pairs[i].Path))
        IN  /\ match.idx \in 1..Len(pairs)
            /\ match.kv = pairs[match.idx]
            /\ \A i \in 1..Len(pairs) : S(match.idx) >= S(i)
            /\ \A i \in 1..Len(pairs) : S(i) = S(match.idx) => match.idx <= i

C15_Witness ==
    /\ pc = "done"
    /\ doc \in UsageDocs
    /\ query = "five"
    /\ match.err = "nil"
    /\ match.idx = 1
    /\ Score("five", ToLower(pairs[2].Path)) = Score("five", ToLower(pairs[1].Path))

\* C16: FindBestMatch returns an error iff pairs is empty or every entry
\* scores 0; the error is the QueryError over ErrNoMatch whose Query is the
\* query as it was supplied (neither lower-cased nor expanded), and no entry
\* comes with it.
C16_NoMatchCondition ==
    pc = "done" =>
        /\ match.err \in {"nil", "ErrNoMatch"}
        /\ match.err = "ErrNoMatch" <=>
              \/ Len(pairs) = 0
              \/ \A i \in 1..Len(pairs) : Score(ToLower(query), ToLower(pairs[i].Path)) = 0
        /\ match.err = "ErrNoMatch" =>
              /\ match.query = query
              /\ match.idx = 0
              /\ match.kv = NoKeyValue

C16_Witness ==
    /\ pc = "done"
    /\ query = "A_B"
    /\ Len(pairs) > 0
    /\ match.err = "ErrNoMatch"
    /\ match.query = "A_B"

\* C17: over the entries five_hour_utilization = 75.5, weekly_limit = 100 and
\* context_window_utilization = 50.0, in any order, "five" and "5h" return
\* five_hour_utilization (75.5), "weekly" returns weekly_limit, "context"
\* returns context_window_utilization, and "nonexistent" fails with the
\* NoMatch error carrying "nonexistent".
C17_ReferenceScenarios ==
    pc = "done" /\ doc \in ReferenceDocs =>
        /\ query \in {"five", "5h"} =>
              /\ match.err = "nil"
              /\ match.kv.Path = "five_hour_utilization"
              /\ match.kv.Value = "75.5"
        /\ query = "weekly" =>
              /\ match.err = "nil"
              /\ match.kv.Path = "weekly_limit"
              /\ match.kv.Value = "100"
        /\ query = "context" =>
              /\ match.err = "nil"
              /\ match.kv.Path = "context_window_utilization"
              /\ match.kv.Value = "50.0"
        /\ query = "nonexistent" =>
              /\ match.err = "ErrNoMatch"
              /\ match.query = "nonexistent"
              /\ match.idx = 0

C17_Witness ==
    /\ pc = "done"
    /\ doc \in ReferenceDocs
    /\ pairs[3].Path = "five_hour_utilization"
    /\ query = "5h"
    /\ match.err = "nil"
    /\ match.kv = KeyValue("five_hour_utilization", "five_hour_utilization", "75.5")

\* C19: whether flattening the document and matching the query ends in the
\* NoMatch error is the same in every run: it depends neither on the order
\* in which the mappings are ranged over nor on the order in which
\* numberWordKeys holds the numerals of equal length.
C19_NoMatchDeterministic ==
    pc = "done" =>
        \A keys \in KeyOrders, d \in Rangings(doc) :
            NoMatchWith(keys, FlattenData(d, ""), query) <=> match.err = "ErrNoMatch"

\* C20: GetUsage sends its requests one after another and stops at the first
\* success or the first failure that is not retriable; it sends at most
\* maxRetries + 1 = 4 requests and always returns. After k <= 3 retriable
\* failures and then a 200 with a parseable body it returns that usage and no
\* error, having sent k + 1 requests (503, 503, 200: three requests); when
\* all 4 attempts fail retriably it returns an error that wraps the error of
\* the last attempt.
C20_BoundedRetry ==
    /\ [](LET n == Len(responses)
          IN  /\ inflight \in {0, 1}
              /\ n + inflight <= maxRetries + 1
              /\ \A i \in 1..(n - 1) : RetriableFailure(responses[i])
              /\ n > 0 /\ ~RetriableFailure(responses[n]) => rpc = "done"
              /\ rpc = "done" /\ urlOK =>
                    /\ inflight = 0
                    /\ n >= 1
                    /\ result.returned
                    /\ Success(responses[n]) =>
                          /\ result.usage = Usage(responses[n].body)
                          /\ result.err = NoError
                    /\ RetriableFailure(responses[n]) =>
                          /\ n = maxRetries + 1
                          /\ result.usage = NilUsage
                          /\ result.err.type = "wrapped"
                          /\ result.err.err = doRequest(responses[n]).err
                          /\ result.err.err = lastErr
              /\ rpc = "done" /\ Codes = <<503, 503, 200>> /\ Success(responses[n]) =>
                    n = 3 /\ result.err = NoError)
    /\ <>(rpc = "done")

C20_Witness ==
    /\ rpc = "done"
    /\ Codes = <<503, 503, 200>>
    /\ responses[3].body = TestBody
    /\ result = Return(Usage(TestBody), NoError)
    /\ sleeps = <<500, 1000>>

\* C18: FlattenData, Score and FindBestMatch share no mutable state: no step
\* of a caller changes a document, a query, a list of pairs already returned
\* or the numeral key list, and however the steps of two callers interleave,
\* each caller gets the result it would get running alone.
C18_NoSharedState ==
    /\ [](\A c \in Callers :
            /\ calls[c].pc # "start" => calls[c].pairs = FlattenData(calls[c].doc, "")
            /\ calls[c].pc = "done" =>
                  calls[c].result = FindBestMatch(FlattenData(calls[c].doc, ""), calls[c].query))
    /\ [][/\ numberWordKeys' = numberWordKeys
          /\ \A c \in Callers :
                /\ calls'[c].doc = calls[c].doc
                /\ calls'[c].query = calls[c].query
                /\ calls[c].pc # "start" => calls'[c].pairs = calls[c].pairs
                /\ \A o \in Callers \ {c} :
                      calls'[c] # calls[c] => calls'[o] = calls[o]]_vars

C18_Witness ==
    /\ calls[1].pc = "done"
    /\ calls[2].pc = "loop"
    /\ calls[2].i = 2
    /\ calls[1].doc \in UsageDocs
    /\ calls[2].doc \in UsageDocs
    /\ calls[1].query = "five"
    /\ calls[2].query = "weekly"
    /\ calls[1].result.err = "nil"
    /\ calls[1].result.idx = 1

\* C21: an attempt is retried iff it failed with a transport error, with an
\* error reading the body of a 200, or with a status that is 429 or at least
\* 500: GetUsage then goes on to the next attempt and, while attempts are
\* left, sends another request. Any other status than 200, a request that
\* cannot be built and a 200 whose body does not parse make GetUsage return
\* that error at once, with no further request and no sleep.
C21_RetryDecision ==
    /\ [][rpc = "wait" =>
            LET a == responses'[Len(responses')]
            IN  /\ RetriableFailure(a) <=> (rpc' = "loop" /\ attempt' = attempt + 1)
                /\ ~RetriableFailure(a) =>
                      /\ rpc' = "done"
                      /\ result'.returned
                      /\ ~Success(a) =>
                            /\ result'.usage = NilUsage
                            /\ result'.err # NoError
                            /\ result'.err = doRequest(a).err]_vars
    /\ [](LET n == Len(responses)
          IN  /\ rpc = "done" /\ n >= 1 /\ ~RetriableFailure(responses[n]) =>
                    /\ Len(sleeps) = n - 1
                    /\ inflight = 0
              /\ rpc = "done" /\ ~urlOK =>
                    /\ n = 0
                    /\ sleeps = <<>>
                    /\ inflight = 0
                    /\ result = Return(NilUsage, Wrapf("failed to create request", URLError)))
    /\ \A k \in 1..maxRetries :
          (Len(responses) = k /\ RetriableFailure(responses[k])) ~> (Len(responses) = k + 1)

C21_Witness ==
    /\ rpc = "done"
    /\ Codes = <<500, 401>>
    /\ responses[2].kind = "http"
    /\ responses[2].body = ""
    /\ result = Return(NilUsage, NewAPIError(401, "Unauthorized", FALSE))
    /\ sleeps = <<500>>

C22_AllSleeps == rpc = "done" /\ sleeps = <<500, 1000, 2000>> /\ Len(responses) = maxRetries + 1

\* C29: a query whose normalized form is empty ("_", "__") scores 0 against
\* every path and FindBestMatch ends with ErrNoMatch, as for the empty query.
C29_EmptyNormalizedNoMatch ==
    pc = "done" /\ NormalizeQuery(ToLower(query)) = "" =>
        /\ \A i \in 1..Len(pairs) : Score(ToLower(query), ToLower(pairs[i].Path)) = 0
        /\ match.err = "ErrNoMatch"
        /\ match.query = query

\* C30: ExpandNumbers(s) contains no ASCII digit whatever s is, so expanding
\* it again changes nothing, and the normalized query that Score compares
\* contains no digit.
C30_DigitFree ==
    /\ pc = "expanded" =>
          /\ expanded = ExpandNumbers(query)
          /\ ~HasDigit(expanded)
          /\ ExpandNumbers(expanded) = expanded
    /\ pc = "scored" => ~HasDigit(NormalizeQuery(query))
C30_Witness ==
    /\ pc = "expanded"
    /\ query = "0123456789"
    /\ expanded = "zerotwelvethreefourfivesixseveneightnine"

\* C23: Read(ttl) returns ErrCacheExpired and no usage whenever the stored
\* timestamp is older than ttl seconds, and Read(0) always fails: an entry
\* that Write has just written is already expired for it.
C23_ReadZeroFails ==
    /\ cacheOp.op = "read" /\ cacheFile.kind = "data"
          /\ cacheOp.at - cacheFile.timestamp.wall > cacheOp.ttl * TicksPerSecond =>
            /\ cacheOp.err = ErrCacheExpired
            /\ cacheOp.usage = NilUsage
    /\ cacheOp.op = "read" /\ cacheOp.ttl = 0 =>
            /\ cacheOp.err # NoError
            /\ cacheOp.usage = NilUsage
    /\ cacheOp.op = "read" /\ cacheOp.ttl = 0 /\ lastWrite # NilUsage =>
            cacheOp.err = ErrCacheExpired

C26_NoCacheAtZero ==
    /\ [][fetch.ttl <= 0 =>
            /\ cacheFile' = cacheFile
            /\ cacheOp' = NoCacheOp
            /\ fetch.pc = "start" /\ fetch' # fetch => fetch'.pc = "auth" /\ fetch'.did = <<>>
            /\ fetch.pc = "save" /\ fetch' # fetch => fetch'.ret = Return(fetch.usage, NoError)]_vars
    /\ [](fetch.ttl <= 0 /\ fetch.pc = "done" =>
            \/ fetch.did = <<"auth">> /\ fetch.ret = Return(NilUsage, AuthError)
            \/ /\ fetch.did = <<"auth", "fetch">>
               /\ Return(fetch.ret.usage, fetch.ret.err) \in GetUsageReturns)
C26_Witness ==
    /\ fetch.pc = "done"
    /\ fetch.ttl = 0
    /\ fetch.did = <<"auth", "fetch">>
    /\ fetch.ret = Return(Usage(MarkupRaw), NoError)
    /\ cacheFile = DataFile(Time(0, FALSE, 0), Compact(TestUsageRaw))
    /\ now = 0

\* C27: with a positive TTL and a parseable entry no older than the TTL the
\* call returns the cached usage and does nothing else (no credentials, no
\* request, no write); credentials and request come only after a miss; the
\* file is written only after a fetch that succeeded; a fetch that fails is
\* returned as the error and leaves the file as it is; the fetched usage is
\* returned with no error whatever the cache write did.
C27_HitAvoidsNetwork ==
    /\ [][fetch.pc = "start" /\ fetch' # fetch
            /\ fetch.ttl > 0 /\ cacheFile.kind = "data" /\ cacheFile.usage # ""
            /\ now - cacheFile.timestamp.wall <= fetch.ttl * TicksPerSecond =>
              /\ fetch'.pc = "done"
              /\ fetch'.did = <<"read">>
              /\ fetch'.ret = Return(Usage(cacheFile.usage), NoError)
              /\ cacheFile' = cacheFile]_vars
    /\ [][fetch.pc = "done" => fetch' = fetch /\ cacheFile' = cacheFile]_vars
    /\ [](fetch.ttl > 0 /\ Len(fetch.did) >= 2 =>
              /\ fetch.did[1] = "read"
              /\ fetch.did[2] = "auth"
              /\ cacheOp.op = "read" => cacheOp.err # NoError /\ cacheOp.usage = NilUsage)
    /\ [][cacheFile' # cacheFile =>
              /\ fetch.pc = "save"
              /\ fetch.ttl > 0
              /\ fetch.did = <<"read", "auth", "fetch">>
              /\ ~fetch.usage.nil
              /\ cacheFile' \in {BadFile, DataFile(Time(now, FALSE, 0), Compact(fetch.usage.Raw))}]_vars
    /\ [][fetch.pc = "http" /\ fetch' # fetch =>
              /\ cacheFile' = cacheFile
              /\ fetch'.pc = "done" <=> fetch'.ret.err # NoError
              /\ fetch'.pc = "done" => fetch'.ret.usage = NilUsage]_vars
    /\ [][fetch.pc = "save" /\ fetch' # fetch =>
              /\ fetch'.pc = "done"
              /\ fetch'.ret = Return(fetch.usage, NoError)]_vars
C27_Witness ==
    /\ fetch.pc = "done"
    /\ fetch.ttl = 1
    /\ fetch.did = <<"read">>
    /\ now = TicksPerSecond
    /\ cacheFile = DataFile(Time(0, FALSE, 0), Compact(TestUsageRaw))
    /\ fetch.ret = Return(Usage(Compact(TestUsageRaw)), NoError)

\* C25: SetStatusLine(command, force) returns ErrStatusLineExists and leaves
\* the map as it was exactly when the key statusLine is present and force is
\* false; otherwise it returns nil, the map holds statusLine = {type:
\* "command", command} and every other key keeps its value.
C25_SetStatusLine ==
    setCall.called =>
        LET before == setCall.before
            keys == IF before.nil THEN {} ELSE DOMAIN before.m
            refused == "statusLine" \in keys /\ ~setCall.force
        IN  /\ (setCall.err = ErrStatusLineExists /\ settings = before) <=> refused
            /\ ~refused =>
                  /\ setCall.err = NoError
                  /\ ~settings.nil
                  /\ DOMAIN settings.m = keys \cup {"statusLine"}
                  /\ settings.m["statusLine"] = StatusLine("command", setCall.command)
                  /\ \A k \in keys \ {"statusLine"} : settings.m[k] = before.m[k]

\* C28: without --force a run of install-script that finds the target path
\* present, or the selected settings file holding statusLine or not loadable,
\* ends with an error and has written neither the script nor the settings;
\* the script is written only after the conflict check has passed, so no run
\* ends with the script written and statusLine rejected as already configured.
C28_CheckBeforeWrite ==
    /\ [](install.pc = "done" /\ ~install.list /\ ~install.force =>
            LET sel == Selected(install.before, install.project)
                blocked == \/ install.before.script # NoFile
                           \/ sel.kind \in {"unreadable", "text"}
                           \/ sel.kind = "object" /\ "statusLine" \in DOMAIN sel.m
            IN  blocked => install.err # NoError /\ files = install.before)
    /\ [][files' # files => install.pc \in {"write", "configure"}]_vars
    /\ [][files'.script # files.script =>
            /\ install.pc = "write"
            /\ install.name \in AvailableScripts
            /\ install.force \/ install.before.script = NoFile
            /\ checkStatusLineConflict(Selected(files, install.project),
                                       install.force, install.project) = NoError]_vars
    /\ [](install.pc = "done" /\ files.script # install.before.script =>
            install.err \notin {AlreadyConfigured("user"), AlreadyConfigured("project")})
C28_Witness ==
    /\ install.pc = "done"
    /\ ~install.force /\ ~install.list /\ install.project
    /\ install.name = "bash"
    /\ install.before = Files(NoFile, NoFile, ObjectFile([statusLine |-> Null]))
    /\ install.err = AlreadyConfigured("project")
    /\ files = install.before
\* a run that installs the script and configures statusLine
C28_Installed ==
    /\ install.pc = "done"
    /\ install.err = NoError
    /\ files.script = ScriptFile("powershell", "0644")
    /\ files.user = ObjectFile([statusLine |-> StatusLineObject("command", ScriptPath),
                                model |-> Scalar("opus")])

====
